---- MODULE Spec2Model ----
(***************************************************************************)
(* Model of KIAConsole/SearchSDK.h: the interface of the KnowItAll search  *)
(* SDK.  The header documents three things, each modelled here:            *)
(*   - the transfer of search results from KnowItAll back to the source    *)
(*     application (window message, file mapping, data layout);            *)
(*   - the SEARCHSDK_MATCHFLAG_* bit constants;                            *)
(*   - the in-process search functions (open, close, run search, cancel,   *)
(*     progress) and the ownership of the returned name strings.           *)
(***************************************************************************)
EXTENDS Integers, Sequences, FiniteSets, TLC

VARIABLES
    \* ---- result transfer: KnowItAll (producer) side ----
    results,      \* list of results the user transfers back to the source
    ppc,          \* "collect" | "sent" | "released"
    mapping,      \* bytes of the file mapping object
    hFileMapping, \* "none" | "open" | "closed"
    closedBy,     \* who called CloseHandle: "nobody" | "KnowItAll" | "source"
    msg,          \* the window message in flight: NoMsg or [lParam, wParam]
    \* ---- result transfer: source application (consumer) side ----
    cpc,          \* "wait" | "mapped" | "reading" | "done"
    pData,        \* the bytes seen through MapViewOfFile
    pos,          \* byte offset of the next read in pData
    remaining,    \* results still to read
    decoded,      \* results read so far
    oob,          \* TRUE once a read went past the end of pData
    \* ---- match flags ----
    flagSet,      \* names of the flags that were or-ed in
    matchFlags,   \* the 32 bit flag word
    lastTest,     \* the last flag test: [flag, result]
    \* ---- in-process search functions ----
    open,         \* set of open search handles
    names,        \* handle -> name pointers returned by its searches
    live,         \* name pointers allocated and not deleted
    deleted,      \* name pointers deleted
    nextPtr,      \* next name pointer to allocate
    tpc,          \* thread -> "idle" | "searching"
    call,         \* thread -> the search call the thread is inside
    mem,          \* thread -> caller memory: the pResults array and what follows
    pnResults     \* thread -> value of *pnResults

transferVars == <<results, ppc, mapping, hFileMapping, closedBy, msg,
                  cpc, pData, pos, remaining, decoded, oob>>
flagVars     == <<flagSet, matchFlags, lastTest>>
sdkVars      == <<open, names, live, deleted, nextPtr, tpc, call, mem, pnResults>>
vars         == <<transferVars, flagVars, sdkVars>>

(***************************************************************************)
(* Bounds                                                                  *)
(***************************************************************************)
MaxResults == 2   \* results in one transfer
MaxNameLen == 2   \* UTF-16 code units in a record name
MaxCap     == 1   \* size of a pResults array passed to a search
MaxMatches == 2   \* entries a search finds
MaxPtrs    == 2   \* name strings allocated in one run

(***************************************************************************)
(* Match flags                                                             *)
(***************************************************************************)
SEARCHSDK_MATCHFLAG_SPECTRALSEARCHRESULT == 1
SEARCHSDK_MATCHFLAG_PEAKSEARCHRESULT     == 2
SEARCHSDK_MATCHFLAG_COMPOSITE            == 4
SEARCHSDK_MATCHFLAG_RESIDUAL             == 8
SEARCHSDK_MATCHFLAG_COMPONENT            == 16
\* (variant: LOCKED given the value of COMPONENT)
LockedSameAsComponent == SEARCHSDK_MATCHFLAG_COMPONENT
SEARCHSDK_MATCHFLAG_LOCKED               == 32

(***************************************************************************)
(* Data layout of the file mapping                                         *)
(***************************************************************************)
Int32Size  == 4   \* "32 bit integer"
DoubleSize == 8   \* "64 bit floating point value"
WCharSize  == 2   \* one UTF-16 code unit

\* A 64 bit floating point value is kept as its IEEE-754 bit pattern, four
\* 16 bit words, most significant first.
D_0_1  == <<16313, 39321, 39321, 39322>>   \* 0.1  = 3FB999999999999A
D_1_5  == <<16376, 0, 0, 0>>               \* 1.5  = 3FF8000000000000
D_0    == <<0, 0, 0, 0>>                   \* 0.0
D_Neg1 == <<49136, 0, 0, 0>>               \* -1.0 = BFF0000000000000

\* 32 bit integer, two's complement, least significant byte first.
Int32Bytes(v) ==
    << v % 256, (v \div 256) % 256, (v \div 65536) % 256, (v \div 16777216) % 256 >>

\* 64 bit floating point value, least significant byte first.
DoubleBytes(d) ==
    << d[4] % 256, d[4] \div 256, d[3] % 256, d[3] \div 256,
       d[2] % 256, d[2] \div 256, d[1] % 256, d[1] \div 256 >>

\* UTF-16 string, two bytes per code unit, not zero-terminated.
RECURSIVE Utf16Bytes(_)
Utf16Bytes(s) ==
    IF s = <<>> THEN <<>>
    ELSE << Head(s) % 256, Head(s) \div 256 >> \o Utf16Bytes(Tail(s))

\* (variant: the count written is the number of bytes of the string)
NameCharCountInBytes(s) == WCharSize * Len(s)

\* "number of characters (not bytes) in the following UTF-16 string"
NameCharCount(s) == Len(s)

\* One result: flags, percentage, weight, character count, name.
EncodeResult(r) ==
    Int32Bytes(r.matchFlags) \o DoubleBytes(r.matchPercentage)
        \o DoubleBytes(r.componentWeight)
        \o Int32Bytes(NameCharCount(r.name)) \o Utf16Bytes(r.name)

RECURSIVE EncodeResults(_)
EncodeResults(rs) ==
    IF rs = <<>> THEN <<>>
    ELSE EncodeResult(Head(rs)) \o EncodeResults(Tail(rs))

\* The data: number of results, then each result.
EncodeData(rs) == Int32Bytes(Len(rs)) \o EncodeResults(rs)

\* ---- reading ----
\* The byte at offset off of the view; a read past the end of the view
\* returns whatever the memory holds there (junk).
ByteAt(view, off, junk) == IF off < Len(view) THEN view[off + 1] ELSE junk

ReadInt32(view, off, junk) ==
    LET b0 == ByteAt(view, off, junk)
        b1 == ByteAt(view, off + 1, junk)
        b2 == ByteAt(view, off + 2, junk)
        b3 == ByteAt(view, off + 3, junk)
    IN  b0 + 256 * b1 + 65536 * b2
           + 16777216 * (IF b3 >= 128 THEN b3 - 256 ELSE b3)

ReadWord(view, off, junk) ==
    ByteAt(view, off, junk) + 256 * ByteAt(view, off + 1, junk)

\* (variant: the 16 bit words of a double taken most significant first)
ReadDoubleWordsSwapped(view, off, junk) ==
    << ReadWord(view, off, junk), ReadWord(view, off + 2, junk),
       ReadWord(view, off + 4, junk), ReadWord(view, off + 6, junk) >>

ReadDouble(view, off, junk) ==
    << ReadWord(view, off + 6, junk), ReadWord(view, off + 4, junk),
       ReadWord(view, off + 2, junk), ReadWord(view, off, junk) >>

ReadUtf16(view, off, n, junk) ==
    [i \in 1..n |-> ReadWord(view, off + WCharSize * (i - 1), junk)]

\* Offset of the name inside a result.
NameOffset == Int32Size + DoubleSize + DoubleSize + Int32Size

\* The result at offset off, and the number of bytes it occupies.
ReadResult(view, off, junk) ==
    LET n == ReadInt32(view, off + Int32Size + DoubleSize + DoubleSize, junk)
        k == IF n > 0 THEN n ELSE 0
    IN  [ matchFlags      |-> ReadInt32(view, off, junk),
          matchPercentage |-> ReadDouble(view, off + Int32Size, junk),
          componentWeight |-> ReadDouble(view, off + Int32Size + DoubleSize, junk),
          nameCharCount   |-> n,
          name            |-> ReadUtf16(view, off + NameOffset, k, junk) ]

ResultSize(rec) ==
    NameOffset + WCharSize * (IF rec.nameCharCount > 0 THEN rec.nameCharCount ELSE 0)

(***************************************************************************)
(* Inputs of the transfer                                                  *)
(***************************************************************************)
\* Names alternate 'A' (ASCII) and U+4E2D (non-ASCII, two non-zero bytes).
NameA(n) == [i \in 1..n |-> IF i % 2 = 1 THEN 65 ELSE 20013]
NameB(n) == [i \in 1..n |-> IF i % 2 = 1 THEN 20013 ELSE 65]
Names == {NameA(n) : n \in 0..MaxNameLen} \cup {NameB(n) : n \in 0..MaxNameLen}

\* a spectral search result; a locked mixture component of a peak search
SpectralResult  == SEARCHSDK_MATCHFLAG_SPECTRALSEARCHRESULT
LockedComponent == SEARCHSDK_MATCHFLAG_PEAKSEARCHRESULT + SEARCHSDK_MATCHFLAG_COMPONENT
                       + SEARCHSDK_MATCHFLAG_LOCKED

\* flags, percentage and weight of a result; 1.5 and -1.0 lie outside 0..1
Fields == { <<SpectralResult, D_0_1, D_0>>,
            <<LockedComponent, D_1_5, D_Neg1>>,
            <<LockedComponent, D_0_1, D_Neg1>> }

Results == { [ matchFlags |-> f[1], matchPercentage |-> f[2],
               componentWeight |-> f[3], name |-> n ] : f \in Fields, n \in Names }

\* What the file mapping holds after the data (a mapping is at least as large
\* as the data; wParam carries the size of the data).
Tails == { <<>>, <<1, 0, 0, 0>> }
JunkBytes == {0, 255}

NoMsg == [lParam |-> "none", wParam |-> 0]

(***************************************************************************)
(* Result transfer from KnowItAll to the source application                *)
(***************************************************************************)
TransferInit ==
    /\ results = <<>>
    /\ ppc = "collect"
    /\ mapping = <<>>
    /\ hFileMapping = "none"
    /\ closedBy = "nobody"
    /\ msg = NoMsg
    /\ cpc = "wait"
    /\ pData = <<>>
    /\ pos = 0
    /\ remaining = 0
    /\ decoded = <<>>
    /\ oob = FALSE

\* KnowItAll: the user picks one more result to return to the source.
AddResult(r) ==
    /\ ppc = "collect"
    /\ Len(results) < MaxResults
    /\ results' = Append(results, r)
    /\ UNCHANGED <<ppc, mapping, hFileMapping, closedBy, msg,
                   cpc, pData, pos, remaining, decoded, oob>>

\* KnowItAll: the user presses the button; KnowItAll creates the file mapping
\* object, fills it and sends the registered message to the source window:
\* LPARAM is the file mapping handle, WPARAM the size of the data.
SendResults(tail) ==
    /\ ppc = "collect"
    /\ mapping' = EncodeData(results) \o tail
    /\ hFileMapping' = "open"
    /\ msg' = [lParam |-> "hFileMapping", wParam |-> Len(EncodeData(results))]
    /\ ppc' = "sent"
    /\ UNCHANGED <<results, closedBy, cpc, pData, pos, remaining, decoded, oob>>

\* Source: the handler of the message casts LPARAM to a HANDLE and calls
\* MapViewOfFile(hFileMapping, FILE_MAP_READ, 0, 0, 0).
MapView ==
    /\ cpc = "wait"
    /\ msg # NoMsg
    /\ hFileMapping = "open"
    /\ pData' = mapping
    /\ pos' = 0
    /\ cpc' = "mapped"
    /\ UNCHANGED <<results, ppc, mapping, hFileMapping, closedBy, msg,
                   remaining, decoded, oob>>

\* (variant: the reader loops once more than the number of results)
ReadCountOffByOne ==
    /\ cpc = "mapped"
    /\ \E junk \in JunkBytes :
          /\ remaining' = ReadInt32(pData, pos, junk) + 1
          /\ oob' = (oob \/ pos + Int32Size > Len(pData))
    /\ pos' = pos + Int32Size
    /\ decoded' = <<>>
    /\ cpc' = "reading"
    /\ UNCHANGED <<results, ppc, mapping, hFileMapping, closedBy, msg, pData>>

\* Source: reads "32 bit integer: number of results".
ReadCount ==
    /\ cpc = "mapped"
    /\ \E junk \in JunkBytes :
          /\ remaining' = ReadInt32(pData, pos, junk)
          /\ oob' = (oob \/ pos + Int32Size > Len(pData))
    /\ pos' = pos + Int32Size
    /\ decoded' = <<>>
    /\ cpc' = "reading"
    /\ UNCHANGED <<results, ppc, mapping, hFileMapping, closedBy, msg, pData>>

\* Source: reads one result ("For each result: ...").
ReadOneResult ==
    /\ cpc = "reading"
    /\ remaining > 0
    /\ \E junk \in JunkBytes :
          LET rec == ReadResult(pData, pos, junk)
          IN  /\ decoded' = Append(decoded, rec)
              /\ pos' = pos + ResultSize(rec)
              /\ oob' = (oob \/ pos + ResultSize(rec) > Len(pData))
    /\ remaining' = remaining - 1
    /\ UNCHANGED <<results, ppc, mapping, hFileMapping, closedBy, msg, cpc, pData>>

\* (variant: the source calls CloseHandle when it is done accessing the data)
DoneAccessingClosesHandle ==
    /\ cpc = "reading"
    /\ remaining <= 0
    /\ cpc' = "done"
    /\ hFileMapping' = "closed"
    /\ closedBy' = "source"
    /\ UNCHANGED <<results, ppc, mapping, msg, pData, pos, remaining, decoded, oob>>

\* Source: all results are read; the handler is done accessing the data and
\* returns.  It does not call CloseHandle on the file mapping object.
DoneAccessing ==
    /\ cpc = "reading"
    /\ remaining <= 0
    /\ cpc' = "done"
    /\ UNCHANGED <<results, ppc, mapping, hFileMapping, closedBy, msg,
                   pData, pos, remaining, decoded, oob>>

\* KnowItAll: after the message was handled KnowItAll calls CloseHandle on the
\* file mapping object.
KnowItAllCloseHandle ==
    /\ ppc = "sent"
    /\ cpc = "done"
    /\ hFileMapping = "open"
    /\ hFileMapping' = "closed"
    /\ closedBy' = "KnowItAll"
    /\ ppc' = "released"
    /\ UNCHANGED <<results, mapping, msg, cpc, pData, pos, remaining, decoded, oob>>

TransferNext ==
    \/ \E r \in Results : AddResult(r)
    \/ \E tail \in Tails : SendResults(tail)
    \/ MapView
    \/ ReadCount
    \/ ReadOneResult
    \/ DoneAccessing
    \/ KnowItAllCloseHandle

(***************************************************************************)
(* Match flags: building and testing the flag word                         *)
(***************************************************************************)
FlagNames == { "SPECTRALSEARCHRESULT", "PEAKSEARCHRESULT", "COMPOSITE",
               "RESIDUAL", "COMPONENT", "LOCKED" }

FlagValue(f) ==
    CASE f = "SPECTRALSEARCHRESULT" -> SEARCHSDK_MATCHFLAG_SPECTRALSEARCHRESULT
      [] f = "PEAKSEARCHRESULT"     -> SEARCHSDK_MATCHFLAG_PEAKSEARCHRESULT
      [] f = "COMPOSITE"            -> SEARCHSDK_MATCHFLAG_COMPOSITE
      [] f = "RESIDUAL"             -> SEARCHSDK_MATCHFLAG_RESIDUAL
      [] f = "COMPONENT"            -> SEARCHSDK_MATCHFLAG_COMPONENT
      [] f = "LOCKED"               -> SEARCHSDK_MATCHFLAG_LOCKED

\* a & b and a | b on non-negative integers, bit by bit
RECURSIVE BitAnd(_, _)
BitAnd(a, b) ==
    IF a = 0 \/ b = 0 THEN 0
    ELSE (a % 2) * (b % 2) + 2 * BitAnd(a \div 2, b \div 2)

RECURSIVE BitOr(_, _)
BitOr(a, b) ==
    IF a = 0 THEN b
    ELSE IF b = 0 THEN a
    ELSE (IF a % 2 = 1 \/ b % 2 = 1 THEN 1 ELSE 0) + 2 * BitOr(a \div 2, b \div 2)

\* the flag word of a set of flags
RECURSIVE OrFlags(_)
OrFlags(S) ==
    IF S = {} THEN 0
    ELSE LET f == CHOOSE x \in S : TRUE
         IN  BitOr(FlagValue(f), OrFlags(S \ {f}))

NoTest == [flag |-> "none", result |-> 0]

FlagInit ==
    /\ flagSet = {}
    /\ matchFlags = 0
    /\ lastTest = NoTest

\* matchFlags |= SEARCHSDK_MATCHFLAG_f
SetFlag(f) ==
    /\ f \notin flagSet
    /\ matchFlags' = BitOr(matchFlags, FlagValue(f))
    /\ flagSet' = flagSet \cup {f}
    /\ lastTest' = NoTest

\* matchFlags & SEARCHSDK_MATCHFLAG_f
TestFlag(f) ==
    /\ lastTest' = [flag |-> f, result |-> BitAnd(matchFlags, FlagValue(f))]
    /\ lastTest' # lastTest
    /\ UNCHANGED <<flagSet, matchFlags>>

FlagNext ==
    \/ \E f \in FlagNames : SetFlag(f)
    \/ \E f \in FlagNames : TestFlag(f)

(***************************************************************************)
(* In-process search functions                                             *)
(***************************************************************************)
Threads == {"t1", "t2"}
Handles == {"h1", "h2"}          \* values of SEARCHSDK_HANDLE
Ptrs    == 1..MaxPtrs            \* values of wchar_t* m_matchName

NoCall == [hSearch |-> "none"]

\* caller memory: the pResults array and the memory that follows it
MemSlots == MaxCap + MaxMatches

Min(a, b) == IF a < b THEN a ELSE b

\* a search call is running on handle h, made by thread s
Running(s, h) == call[s] # NoCall /\ call[s].hSearch = h

\* name strings the running searches will still allocate
Need(s) == IF call[s] = NoCall THEN 0 ELSE Min(call[s].total, call[s].capacity)

RECURSIVE SumNeed(_)
SumNeed(S) ==
    IF S = {} THEN 0
    ELSE LET s == CHOOSE x \in S : TRUE IN Need(s) + SumNeed(S \ {s})

\* An entry of the pResults array the search has not written, and memory
\* of the caller that is not part of the array.
Garbage == [slot |-> "garbage"]
Other   == [slot |-> "other"]

\* struct SearchSDK_Match
\* (the databases searched are licensed ones)
Match(rank, ptr) ==
    [ slot              |-> "match",
      m_matchPercentage |-> 100 - 10 * (rank - 1),
      m_matchName       |-> ptr,
      m_bLocked         |-> FALSE ]

SdkInit ==
    /\ open = {}
    /\ names = [h \in Handles |-> {}]
    /\ live = {}
    /\ deleted = {}
    /\ nextPtr = 1
    /\ tpc = [t \in Threads |-> "idle"]
    /\ call = [t \in Threads |-> NoCall]
    /\ mem = [t \in Threads |-> [i \in 1..MemSlots |-> Other]]
    /\ pnResults = [t \in Threads |-> 0]

\* SearchSDK_OpenSearchFn: creates a search object and returns its handle.
OpenSearch(t) ==
    /\ tpc[t] = "idle"
    /\ \E h \in Handles \ open :
          /\ open' = open \cup {h}
          /\ names' = [names EXCEPT ![h] = {}]
    /\ UNCHANGED <<live, deleted, nextPtr, tpc, call, mem, pnResults>>

\* (variant: closing one search object deletes the names of all of them)
CloseSearchDeletesAll(t, h) ==
    /\ tpc[t] = "idle"
    /\ h \in open
    /\ \A s \in Threads : ~Running(s, h)
    /\ open' = open \ {h}
    /\ live' = {}
    /\ deleted' = deleted \cup live
    /\ names' = [names EXCEPT ![h] = {}]
    /\ UNCHANGED <<nextPtr, tpc, call, mem, pnResults>>

\* SearchSDK_CloseSearchFn: deletes a search object and all name pointers
\* from returned search results.
CloseSearch(t, h) ==
    /\ tpc[t] = "idle"
    /\ h \in open
    /\ \A s \in Threads : ~Running(s, h)
    /\ open' = open \ {h}
    /\ live' = live \ names[h]
    /\ deleted' = deleted \cup names[h]
    /\ names' = [names EXCEPT ![h] = {}]
    /\ UNCHANGED <<nextPtr, tpc, call, mem, pnResults>>

\* (variant: the search function starts the search and returns at once)
EnterSearchAsync(t, h, cap, total) ==
    /\ tpc[t] = "idle"
    /\ h \in open
    /\ \A s \in Threads : ~Running(s, h)
    /\ nextPtr + SumNeed(Threads) + Min(total, cap) <= MaxPtrs + 1
    /\ call' = [call EXCEPT ![t] =
                   [ hSearch |-> h, capacity |-> cap, total |-> total,
                     found |-> 0, cancelled |-> FALSE, progress |-> 0 ]]
    /\ mem' = [mem EXCEPT ![t] =
                   [i \in 1..MemSlots |-> IF i <= cap THEN Garbage ELSE Other]]
    /\ pnResults' = [pnResults EXCEPT ![t] = cap]
    /\ UNCHANGED <<open, names, live, deleted, nextPtr, tpc>>

\* Entry of a search function: the caller passes the pResults array and its
\* size in *pnResults; the call runs synchronously, the calling thread is
\* inside it until it returns.
EnterSearch(t, h, cap, total) ==
    /\ tpc[t] = "idle"
    /\ h \in open
    /\ \A s \in Threads : ~Running(s, h)
    /\ nextPtr + SumNeed(Threads) + Min(total, cap) <= MaxPtrs + 1
    /\ tpc' = [tpc EXCEPT ![t] = "searching"]
    /\ call' = [call EXCEPT ![t] =
                   [ hSearch |-> h, capacity |-> cap, total |-> total,
                     found |-> 0, cancelled |-> FALSE, progress |-> 0 ]]
    /\ mem' = [mem EXCEPT ![t] =
                   [i \in 1..MemSlots |-> IF i <= cap THEN Garbage ELSE Other]]
    /\ pnResults' = [pnResults EXCEPT ![t] = cap]
    /\ UNCHANGED <<open, names, live, deleted, nextPtr>>

\* SearchSDK_RunSearchEvenlySpacedFn
RunSearchEvenlySpaced(t, h, cap, total) == EnterSearch(t, h, cap, total)

\* SearchSDK_RunSearchUnevenlySpacedFn
RunSearchUnevenlySpaced(t, h, cap, total) == EnterSearch(t, h, cap, total)

\* The running search finds one more entry.
SearchFinds(t) ==
    /\ tpc[t] = "searching"
    /\ ~call[t].cancelled
    /\ call[t].found < call[t].total
    /\ call' = [call EXCEPT ![t].found = @ + 1]
    /\ UNCHANGED <<open, names, live, deleted, nextPtr, tpc, mem, pnResults>>

\* (variant: all entries found are written, whatever the size of the array)
NumResultsAllFound(found, cap) == found

\* Number of entries with valid results: as many as were found, up to the
\* size of the array that was passed in.
NumResults(found, cap) == Min(found, cap)

\* The values *pnResults can hold on exit.  A search that ran to its end
\* returns all it found; a cancelled one returns some of what it had found.
ExitCounts(c) ==
    IF c.cancelled THEN 0..NumResults(c.found, c.capacity)
    ELSE {NumResults(c.found, c.capacity)}

\* Exit of a search function: the search completed or was cancelled.  The
\* array is filled with the results, *pnResults is set to the number of
\* entries with valid results; the name strings belong to the search object.
SearchReturn(t) ==
    /\ tpc[t] = "searching"
    /\ call[t].found = call[t].total \/ call[t].cancelled
    /\ \E k \in ExitCounts(call[t]) :
          LET ptrs == nextPtr .. (nextPtr + k - 1)
              h    == call[t].hSearch
          IN  /\ mem' = [mem EXCEPT ![t] =
                            [i \in 1..MemSlots |->
                                IF i <= k THEN Match(i, nextPtr + i - 1)
                                ELSE mem[t][i]]]
              /\ names' = [names EXCEPT ![h] = @ \cup ptrs]
              /\ live' = live \cup ptrs
              /\ nextPtr' = nextPtr + k
              /\ pnResults' = [pnResults EXCEPT ![t] = k]
    /\ tpc' = [tpc EXCEPT ![t] = "idle"]
    /\ call' = [call EXCEPT ![t] = NoCall]
    /\ UNCHANGED <<open, deleted>>

\* SearchSDK_CancelSearchFn: causes a running search to be canceled.
CancelSearch(t, h) ==
    /\ tpc[t] = "idle"
    /\ h \in open
    /\ \E s \in Threads :
          /\ Running(s, h)
          /\ ~call[s].cancelled
          /\ call' = [call EXCEPT ![s].cancelled = TRUE]
    /\ UNCHANGED <<open, names, live, deleted, nextPtr, tpc, mem, pnResults>>

\* progress percentage from 0-100 of a search that found `found` of `total`
Percentage(found, total) == IF total = 0 THEN 100 ELSE (100 * found) \div total

\* SearchSDK_GetProgressPercentageFn: retrieves a progress value for the
\* currently running search (kept in the call as the value last reported).
GetProgressPercentage(t, h) ==
    /\ tpc[t] = "idle"
    /\ h \in open
    /\ \E s \in Threads :
          /\ Running(s, h)
          /\ call' = [call EXCEPT ![s].progress =
                                      Percentage(call[s].found, call[s].total)]
    /\ UNCHANGED <<open, names, live, deleted, nextPtr, tpc, mem, pnResults>>

SdkNext ==
    \/ \E t \in Threads : OpenSearch(t)
    \/ \E t \in Threads, h \in Handles : CloseSearch(t, h)
    \/ \E t \in Threads, h \in Handles, cap \in 0..MaxCap, total \in 0..MaxMatches :
          RunSearchEvenlySpaced(t, h, cap, total)
    \/ \E t \in Threads, h \in Handles, cap \in 0..MaxCap, total \in 0..MaxMatches :
          RunSearchUnevenlySpaced(t, h, cap, total)
    \/ \E t \in Threads : SearchFinds(t)
    \/ \E t \in Threads : SearchReturn(t)
    \/ \E t \in Threads, h \in Handles : CancelSearch(t, h)
    \/ \E t \in Threads, h \in Handles : GetProgressPercentage(t, h)

(***************************************************************************)
(* Specifications                                                          *)
(***************************************************************************)
Init == TransferInit /\ FlagInit /\ SdkInit

\* the result transfer
Next == TransferNext /\ UNCHANGED <<flagVars, sdkVars>>
Spec == Init /\ [][Next]_vars

\* the match flags
FlagStep == FlagNext /\ UNCHANGED <<transferVars, sdkVars>>
FlagSpec == Init /\ [][FlagStep]_vars

\* the in-process search functions
SdkStep == SdkNext /\ UNCHANGED <<transferVars, flagVars>>
SdkSpec == Init /\ [][SdkStep]_vars

(***************************************************************************)
(* Properties of the result transfer (checked under Spec)                  *)
(***************************************************************************)
\* the number of results the data announces: its leading 32 bit integer
ResultCount == ReadInt32(mapping, 0, 0)

\* C1: a buffer whose leading 32 bit integer is N decodes to exactly N
\* results.  The reader never holds more than N results, is done with exactly
\* N of them, has then consumed exactly the data (wParam bytes: nothing of
\* what follows the data in the mapping, and no byte outside the view), and
\* for N = 0 it returns the empty list having consumed the 4 bytes of the
\* count alone.
DecodesExactlyResultCount ==
    /\ cpc \in {"reading", "done"} =>
          /\ Len(decoded) + remaining = ResultCount
          /\ Len(decoded) <= ResultCount
    /\ cpc = "done" =>
          /\ Len(decoded) = ResultCount
          /\ ResultCount = Len(results)
          /\ pos = msg.wParam
          /\ ~oob
          /\ (ResultCount = 0 => decoded = <<>> /\ pos = 4)

\* two results were read from a mapping that holds more bytes than the data
TwoResultsReadBeforeTail ==
    /\ cpc = "done"
    /\ Len(decoded) = 2
    /\ Len(mapping) > msg.wParam

\* C2: round trip.  The results read are, in number, order and in each of
\* flags, percentage, weight and name, the results KnowItAll encoded; values
\* of percentage and weight outside 0..1 come back unchanged.
RoundTrip ==
    /\ cpc \in {"reading", "done"} =>
          /\ Len(decoded) <= Len(results)
          /\ \A i \in 1..Len(decoded) :
                /\ decoded[i].matchFlags = results[i].matchFlags
                /\ decoded[i].matchPercentage = results[i].matchPercentage
                /\ decoded[i].componentWeight = results[i].componentWeight
                /\ decoded[i].name = results[i].name
    /\ cpc = "done" => Len(decoded) = Len(results)

\* a result with percentage 1.5 and weight -1.0 was transferred and read
OutOfRangeValuesRead ==
    /\ cpc = "done"
    /\ \E i \in 1..Len(decoded) :
          /\ decoded[i].matchPercentage = D_1_5
          /\ decoded[i].componentWeight = D_Neg1
          /\ Len(decoded[i].name) = 2

\* C4: the file mapping handle is closed by KnowItAll only, never by the
\* source application; while the source reads the data the handle is open.
OnlyKnowItAllClosesHandle ==
    /\ closedBy # "source"
    /\ hFileMapping = "closed" => closedBy = "KnowItAll"
    /\ cpc \in {"mapped", "reading"} => hFileMapping = "open"

\* the source is done with the data and KnowItAll has closed the handle
HandleClosedAfterRead ==
    /\ cpc = "done"
    /\ decoded # <<>>
    /\ hFileMapping = "closed"
    /\ closedBy = "KnowItAll"

\* bytes of the data holding the results rs: 4 for the count and
\* 4 + 8 + 8 + 4 + 2 * n for a result whose name has n code units
RECURSIVE LayoutSize(_)
LayoutSize(rs) ==
    IF rs = <<>> THEN 4
    ELSE LayoutSize(Tail(rs)) + 24 + 2 * Len(Head(rs).name)

\* C9: nameCharCount counts UTF-16 code units.  The data of results with
\* name lengths n_1..n_N has 4 + sum of (24 + 2 * n_i) bytes; the reader is
\* after i results at offset 4 + sum of the first i terms; the count read for
\* a result and the length of the name read are the code units of its name.
CharCountIsCodeUnits ==
    /\ ppc # "collect" =>
          /\ msg.wParam = LayoutSize(results)
          /\ Len(mapping) >= LayoutSize(results)
    /\ cpc \in {"reading", "done"} =>
          /\ Len(decoded) <= Len(results)
          /\ pos = LayoutSize(SubSeq(results, 1, Len(decoded)))
          /\ \A i \in 1..Len(decoded) :
                /\ decoded[i].nameCharCount = Len(results[i].name)
                /\ Len(decoded[i].name) = Len(results[i].name)

\* a name of two code units, one of them non-ASCII, was read
NonAsciiNameRead ==
    /\ cpc = "done"
    /\ \E i \in 1..Len(decoded) :
          /\ decoded[i].nameCharCount = 2
          /\ decoded[i].name = <<20013, 65>>
          /\ msg.wParam >= 4 + 24 + 4

(***************************************************************************)
(* Properties of the match flags (checked under FlagSpec)                  *)
(***************************************************************************)
\* C10: the six flags are pairwise distinct single bits 1, 2, 4, 8, 16, 32:
\* the flag word of a set of flags lies in 0..63, no other set of flags has
\* the same flag word, and the bitwise AND of the word with a flag is
\* non-zero exactly for the flags of the set.
FlagsAreDistinctBits ==
    /\ {FlagValue(f) : f \in FlagNames} = {1, 2, 4, 8, 16, 32}
    /\ \A f, g \in FlagNames : f # g => FlagValue(f) # FlagValue(g)
    /\ matchFlags \in 0..63
    /\ matchFlags = OrFlags(flagSet)
    /\ \A S \in SUBSET FlagNames : OrFlags(S) = matchFlags => S = flagSet
    /\ \A f \in FlagNames : (BitAnd(matchFlags, FlagValue(f)) # 0) <=> (f \in flagSet)
    /\ lastTest # NoTest => ((lastTest.result # 0) <=> (lastTest.flag \in flagSet))

\* a flag that is not set was tested on a word with three flags set
UnsetFlagTested ==
    /\ flagSet = {"PEAKSEARCHRESULT", "COMPONENT", "LOCKED"}
    /\ lastTest = [flag |-> "COMPOSITE", result |-> 0]

(***************************************************************************)
(* Properties of the search functions (checked under SdkSpec)              *)
(***************************************************************************)
\* thread t returns from its search call in this step
Returns(t) == tpc[t] = "searching" /\ tpc'[t] = "idle"

NamesLiveUntilClose ==
    [][ /\ \A h \in open' : names'[h] \subseteq live' /\ names'[h] \cap deleted' = {}
        /\ \A h \in open \cap open' : names[h] \subseteq names'[h]
        /\ \A h \in open \ open' :
              /\ live' = live \ names[h]
              /\ deleted' = deleted \cup names[h]
        /\ open' = open => (live \subseteq live' /\ deleted' = deleted)
      ]_vars

\* a handle with a returned name was closed while another handle with a
\* returned name stays open
ClosedOneOfTwo ==
    \E h \in open :
        /\ names[h] # {}
        /\ names[h] \subseteq live
        /\ deleted # {}

\* C7: a search call is synchronous.  The calling thread is inside the call
\* while the search runs and leaves it only when the search has completed or
\* was cancelled; so a cancel or progress call acting on the running search
\* of a handle is made by another thread than the one running that search.
SearchIsSynchronous ==
    [][ /\ \A t \in Threads : call[t] # NoCall => tpc[t] = "searching"
        /\ \A t \in Threads : Returns(t) =>
              (call[t].found = call[t].total \/ call[t].cancelled)
        /\ \A t \in Threads, h \in Handles :
              (CancelSearch(t, h) \/ GetProgressPercentage(t, h)) =>
                  \A s \in Threads : Running(s, h) => s # t
      ]_vars

\* a running search that had reported progress was cancelled by the other
\* thread before it found all its entries
CancelledWhileRunning ==
    \E s \in Threads :
        /\ tpc[s] = "searching"
        /\ call[s].cancelled
        /\ call[s].progress > 0
        /\ call[s].found < call[s].total

====
